---- MODULE Spec2Model ----
(***************************************************************************)
(* Alert lifecycle of the AlertoDePin backend: the alert controller        *)
(* (create, device create, update, respond, resolve, cancel, delete), the  *)
(* authentication and role middleware in front of it, and the              *)
(* notifications and socket events each request produces.                  *)
(***************************************************************************)
EXTENDS Integers, Sequences, FiniteSets, Bags, TLC

\* ------------------------------------------------------------------ bounds
MaxAlerts == 1      \* alerts ever created in one behaviour
MaxClock == 2       \* latest value of Date.now()
MaxTimeline == 3    \* longest timeline a request may still extend
MaxNotifs == 3      \* notifications held by the store: one per transition of a timeline

\* ------------------------------------------------------------ vocabulary
None == "none"          \* an unset reference (undefined / null)
Absent == "absent"      \* a field the request body does not carry
NoTime == 0             \* an unset Date; Date.now() is at least 1

\* The users of the store and their userType (User.userType).
UserType ==
    [c1 |-> "citizen", p1 |-> "police", fam |-> "family", adm |-> "admin"]

Users == DOMAIN UserType

\* The synthetic device account of the IoT path; it never logs in.
DeviceUser == "device"

UserStatuses == {"active", "inactive", "suspended"}

\* Alert.type values a request is tried with: one that a responder role
\* matches and the one no responder role matches.
AlertTypes == {"police", "family"}

\* The users who file alerts.
Reporters == {"c1"}

Statuses == {"pending", "active", "responded", "resolved", "cancelled"}

\* The roles the respond route lets through.
ResponderRoles == {"police", "hospital", "fire", "admin"}

AlertIds == 1..MaxAlerts

\* The enum of Alert.type.
AlertTypeEnum == {"police", "hospital", "fire", "family"}

\* The socket connections.
Connections == {"s1", "s2"}

VARIABLES
    alerts,         \* the Alert collection: id -> document
    nextId,         \* the id the next created alert gets
    notifications,  \* the Notification collection, a bag of documents
    clock,          \* the last value Date.now() returned
    userStatus,     \* User.status of every user
    deviceAccounts, \* how many device accounts the User collection holds
    emitted,        \* the socket events the last request emitted, in order
    response,       \* the last request and the HTTP status it was answered with
    joined,         \* socket connection -> the rooms it has joined
    inflight,       \* respond and cancel requests between read and write
    onlineUsers,    \* the presence Map, its entries in insertion order
    connected,      \* the socket connections that have not disconnected
    iotInflight     \* device requests between account lookup and creation

vars ==
    <<alerts, nextId, notifications, clock, userStatus, deviceAccounts,
      emitted, response, joined, inflight, onlineUsers, connected,
      iotInflight>>

\* The state of the socket layer.
socketVars == <<joined, onlineUsers, connected>>

\* The requests suspended at an await.
raceVars == <<inflight, iotInflight>>

\* ------------------------------------------------------------- helpers
\* Date.now() at a request: time does not run backwards.
Now == {t \in 1..MaxClock : t >= clock}

TimelineEntry(action, user, timestamp, notes) ==
    [action |-> action, user |-> user, timestamp |-> timestamp, notes |-> notes]

Response(op, caller, alert, status) ==
    [op |-> op, caller |-> caller, alert |-> alert, status |-> status]

Notif(user, alert, type) ==
    [user |-> user, alert |-> alert, type |-> type, read |-> FALSE]

\* io.to(room).emit(name): the room is the bare user id.
ToUser(name, user) == [name |-> name, room |-> <<"id", user>>]

\* io.emit(name): every connection.
Broadcast(name) == [name |-> name, room |-> <<"all", "all">>]

Exists(a) == a \in DOMAIN alerts

\* authenticate without its check of User.status.
AuthenticatedAlways(u) == userStatus[u] \in UserStatuses

\* authenticate: the token's user must be active.
Authenticated(u) == userStatus[u] = "active"

\* The role list of the respond route with 'admin' left out.
AuthorizeRolesNoAdmin(u) == UserType[u] \in ResponderRoles \ {"admin"}

\* authorizeRoles('police', 'hospital', 'fire', 'admin')
AuthorizeRoles(u) == UserType[u] \in ResponderRoles

\* A request that is answered without touching anything.
Reject(op, u, a, status) ==
    /\ response' = Response(op, u, a, status)
    /\ emitted' = <<>>
    /\ UNCHANGED <<alerts, nextId, notifications, clock, userStatus,
                   deviceAccounts, socketVars, raceVars>>

\* ------------------------------------------------------- alert documents
\* Alert.create in createAlert: status takes the schema default, pending.
NewAlert(type, reporter, now) ==
    [type |-> type, status |-> "pending", reporter |-> reporter,
     responder |-> None, responseTime |-> NoTime, resolvedTime |-> NoTime,
     address |-> "given",
     timeline |-> <<TimelineEntry("Alert created", reporter, now, None)>>]

\* Alert.create in createIoTAlert with the status left to the schema default.
NewIoTAlertPending(type, geocoded, now) ==
    [type |-> type, status |-> "pending", reporter |-> DeviceUser,
     responder |-> None, responseTime |-> NoTime, resolvedTime |-> NoTime,
     address |-> IF geocoded THEN "geocoded" ELSE "coordinates",
     timeline |-> <<TimelineEntry("Alert created from IoT (auto-active)",
                                  DeviceUser, now,
                                  "Initial status set to active from IoT device")>>]

\* Alert.create in createIoTAlert: status is set to active.
NewIoTAlert(type, geocoded, now) ==
    [type |-> type, status |-> "active", reporter |-> DeviceUser,
     responder |-> None, responseTime |-> NoTime, resolvedTime |-> NoTime,
     address |-> IF geocoded THEN "geocoded" ELSE "coordinates",
     timeline |-> <<TimelineEntry("Alert created from IoT (auto-active)",
                                  DeviceUser, now,
                                  "Initial status set to active from IoT device")>>]

\* User.find({userType: type, status: 'active'})
MatchingResponders(type) ==
    {r \in Users : UserType[r] = type /\ userStatus[r] = "active"}

\* .limit(20)
FanOutLimit == 20

NearbyResponders(type) ==
    {R \in SUBSET MatchingResponders(type) :
        Cardinality(R) = IF Cardinality(MatchingResponders(type)) < FanOutLimit
                         THEN Cardinality(MatchingResponders(type))
                         ELSE FanOutLimit}

\* The familyMembers references held by the stored document of a user:
\* the store keeps fam as a family member of c1.
RegisteredFamily(u) == IF u = "c1" THEN {"fam"} ELSE {}

\* reporter.familyMembers: the User schema declares no such path, so the
\* hydrated document never carries one.
FamilyMembers(u) == {}

RECURSIVE SetToSeq(_)
SetToSeq(S) ==
    IF S = {} THEN <<>>
    ELSE LET x == CHOOSE y \in S : TRUE IN <<x>> \o SetToSeq(S \ {x})

RECURSIVE NotifBag(_, _, _)
NotifBag(S, a, type) ==
    IF S = {} THEN EmptyBag
    ELSE LET x == CHOOSE y \in S : TRUE
         IN SetToBag({Notif(x, a, type)}) (+) NotifBag(S \ {x}, a, type)

NewAlertEvents(R) ==
    [i \in 1..Len(SetToSeq(R)) |-> ToUser("newAlert", SetToSeq(R)[i])]

\* The family loop of createAlert: newNotification, then new-alert, to the
\* room of every family member.
RECURSIVE FamilyEvents(_)
FamilyEvents(F) ==
    IF F = {} THEN <<>>
    ELSE LET x == CHOOSE y \in F : TRUE
         IN <<ToUser("newNotification", x), ToUser("new-alert", x)>>
                \o FamilyEvents(F \ {x})

\* createAlert emitting the broadcast inside the responder block only.
CreateEventsWhenResponders(R, F) ==
    IF R # {}
    THEN NewAlertEvents(R) \o FamilyEvents(F) \o <<Broadcast("new-alert")>>
    ELSE FamilyEvents(F)

\* The events of createAlert, in order: newAlert to every nearby responder,
\* the family events, then the broadcast.
CreateEvents(R, F) ==
    NewAlertEvents(R) \o FamilyEvents(F) \o <<Broadcast("new-alert")>>

\* --------------------------------------------------------------- guards
\* respondToAlert taking an alert that somebody has responded to as well.
RespondOpenOrResponded(alert) ==
    alert.status \in {"pending", "active", "responded"}

\* respondToAlert: the alert must be pending or active.
RespondOpen(alert) == alert.status \in {"pending", "active"}

\* respondToAlert without its role check.
RespondRoleAny(u, alert) == TRUE

\* respondToAlert: the caller's userType is the alert's type, or admin.
RespondRoleOk(u, alert) == UserType[u] = alert.type \/ UserType[u] = "admin"

\* resolveAlert letting every responder role resolve, assigned or not.
ResolveAuthorizedAnyResponder(u, alert) == UserType[u] \in ResponderRoles

\* resolveAlert: the caller is the assigned responder, or admin.
ResolveAuthorized(u, alert) ==
    (alert.responder # None /\ alert.responder = u) \/ UserType[u] = "admin"

\* cancelAlert letting an admin cancel too.
CancelOwnerOrAdmin(u, alert) == alert.reporter = u \/ UserType[u] = "admin"

\* cancelAlert: only the reporter.
CancelOwner(u, alert) == alert.reporter = u

\* cancelAlert without its responder check.
CancelNoResponderSkipped(alert) == TRUE

\* cancelAlert: nobody has responded yet.
CancelNoResponder(alert) == alert.responder = None

\* cancelAlert: the alert must be pending or active.
CancelOpen(alert) == alert.status \in {"pending", "active"}

\* updateAlert without its ownership check.
UpdateAuthorizedAnyone(u, alert) == u \in Users

\* updateAlert: reporter, assigned responder, or admin.
UpdateAuthorized(u, alert) ==
    \/ alert.reporter = u
    \/ (alert.responder # None /\ alert.responder = u)
    \/ UserType[u] = "admin"

\* deleteAlert: reporter or admin.
DeleteAuthorized(u, alert) == alert.reporter = u \/ UserType[u] = "admin"

\* --------------------------------------------------------------- actions
\* POST /api/alerts: authenticate, createAlert. `valid` is whether the body
\* passes the schema's validators; `saved` are the responders whose
\* Notification.create succeeds.
createAlert(u, type, valid, saved) ==
    IF ~Authenticated(u) THEN Reject("create", u, 0, 403)
    ELSE IF ~valid THEN Reject("create", u, 0, 500)
    ELSE \E now \in Now, R \in NearbyResponders(type) :
        /\ nextId <= MaxAlerts
        /\ saved \subseteq R
        /\ BagCardinality(notifications) + Cardinality(saved) <= MaxNotifs
        /\ alerts' = alerts @@ (nextId :> NewAlert(type, u, now))
        /\ nextId' = nextId + 1
        /\ clock' = now
        /\ notifications' = notifications (+) NotifBag(saved, nextId, "alert")
                (+) NotifBag(FamilyMembers(u), nextId, "family_alert")
        /\ emitted' = CreateEvents(R, FamilyMembers(u))
        /\ response' = Response("create", u, nextId, 201)
        /\ UNCHANGED <<userStatus, deviceAccounts, socketVars, raceVars>>

\* parseFloat of a body field: a number, or NaN for other text.
ParseFloat(field) == IF field = "13.62" THEN "13.62" ELSE "NaN"

\* Alert.create's validation of a device alert: type must be of the enum
\* and the coordinates must cast to numbers.
IoTAlertValid(type, coords) ==
    type \in AlertTypeEnum /\ ParseFloat(coords) # "NaN"

\* POST /api/alerts/iot: createIoTAlert, no authentication. `type` may be
\* missing, `coords` stands for latitude and longitude and may be missing,
\* `geocoded` is whether reverseGeocode returned an address.
createIoTAlert(type, coords, geocoded) ==
    IF type = Absent \/ coords = Absent THEN Reject("iot", None, 0, 400)
    ELSE IF ~IoTAlertValid(type, coords) THEN Reject("iot", None, 0, 500)
    ELSE \E now \in Now :
        /\ nextId <= MaxAlerts
        /\ deviceAccounts' = IF deviceAccounts = 0 THEN 1 ELSE deviceAccounts
        /\ alerts' = alerts @@ (nextId :> NewIoTAlert(type, geocoded, now))
        /\ nextId' = nextId + 1
        /\ clock' = now
        /\ emitted' = <<Broadcast("new-alert")>>
        /\ response' = Response("iot", None, nextId, 201)
        /\ UNCHANGED <<notifications, userStatus, socketVars, raceVars>>

\* respondToAlert saving the alert before it checks the caller's role.
respondToAlertSaveFirst(u, a, notifOk) ==
    IF ~Authenticated(u) THEN Reject("respond", u, a, 403)
    ELSE IF ~AuthorizeRoles(u) THEN Reject("respond", u, a, 403)
    ELSE IF ~Exists(a) THEN Reject("respond", u, a, 404)
    ELSE IF ~RespondOpen(alerts[a]) THEN Reject("respond", u, a, 400)
    ELSE \E now \in Now :
        /\ Len(alerts[a].timeline) < MaxTimeline
        /\ alerts' = [alerts EXCEPT ![a] =
              [@ EXCEPT !.responder = u, !.status = "responded",
                        !.responseTime = now,
                        !.timeline = Append(@, TimelineEntry(
                            "Responder assigned and en route", u, now, None))]]
        /\ clock' = now
        /\ notifications' = notifications
        /\ emitted' = <<>>
        /\ response' = Response("respond", u, a,
                                IF RespondRoleOk(u, alerts[a]) THEN 200 ELSE 403)
        /\ UNCHANGED <<nextId, userStatus, deviceAccounts, socketVars, raceVars>>

\* PUT /api/alerts/:id/respond: authenticate, authorizeRoles, respondToAlert.
\* `notifOk` is whether Notification.create succeeds.
respondToAlert(u, a, notifOk) ==
    IF ~Authenticated(u) THEN Reject("respond", u, a, 403)
    ELSE IF ~AuthorizeRoles(u) THEN Reject("respond", u, a, 403)
    ELSE IF ~Exists(a) THEN Reject("respond", u, a, 404)
    ELSE IF ~RespondOpen(alerts[a]) THEN Reject("respond", u, a, 400)
    ELSE IF ~RespondRoleOk(u, alerts[a]) THEN Reject("respond", u, a, 403)
    ELSE \E now \in Now :
        /\ Len(alerts[a].timeline) < MaxTimeline
        /\ notifOk => BagCardinality(notifications) < MaxNotifs
        /\ alerts' = [alerts EXCEPT ![a] =
              [@ EXCEPT !.responder = u, !.status = "responded",
                        !.responseTime = now,
                        !.timeline = Append(@, TimelineEntry(
                            "Responder assigned and en route", u, now, None))]]
        /\ clock' = now
        /\ IF notifOk
           THEN /\ notifications' = notifications (+)
                      SetToBag({Notif(alerts[a].reporter, a, "alert_responded")})
                /\ emitted' = <<ToUser("alertResponded", alerts[a].reporter),
                                ToUser("newNotification", alerts[a].reporter)>>
                /\ response' = Response("respond", u, a, 200)
           ELSE /\ notifications' = notifications
                /\ emitted' = <<ToUser("alertResponded", alerts[a].reporter)>>
                /\ response' = Response("respond", u, a, 500)
        /\ UNCHANGED <<nextId, userStatus, deviceAccounts, socketVars, raceVars>>

\* resolveAlert emitting the generic event before the resolved event.
ResolveEventsUpdatedFirst(reporter) ==
    <<ToUser("alertUpdated", reporter), ToUser("alertResolved", reporter)>>

\* The events resolveAlert emits before it stores the Notification:
\* alertResolved, then alertUpdated, to the reporter's room.
ResolveEvents(reporter) ==
    <<ToUser("alertResolved", reporter), ToUser("alertUpdated", reporter)>>

\* PUT /api/alerts/:id/resolve: authenticate, resolveAlert. `notes` is
\* req.body.notes.
resolveAlert(u, a, notes, notifOk) ==
    IF ~Authenticated(u) THEN Reject("resolve", u, a, 403)
    ELSE IF ~Exists(a) THEN Reject("resolve", u, a, 404)
    ELSE IF ~ResolveAuthorized(u, alerts[a]) THEN Reject("resolve", u, a, 403)
    ELSE \E now \in Now :
        /\ Len(alerts[a].timeline) < MaxTimeline
        /\ notifOk => BagCardinality(notifications) < MaxNotifs
        /\ alerts' = [alerts EXCEPT ![a] =
              [@ EXCEPT !.status = "resolved", !.resolvedTime = now,
                        !.timeline = Append(@, TimelineEntry(
                            "Alert resolved", u, now, notes))]]
        /\ clock' = now
        /\ IF notifOk
           THEN /\ notifications' = notifications (+)
                      SetToBag({Notif(alerts[a].reporter, a, "alert_resolved")})
                /\ emitted' = ResolveEvents(alerts[a].reporter) \o
                                <<ToUser("newNotification", alerts[a].reporter)>>
                /\ response' = Response("resolve", u, a, 200)
           ELSE /\ notifications' = notifications
                /\ emitted' = ResolveEvents(alerts[a].reporter)
                /\ response' = Response("resolve", u, a, 500)
        /\ UNCHANGED <<nextId, userStatus, deviceAccounts, socketVars, raceVars>>

\* cancelAlert checking only that the caller is the reporter.
cancelAlertOwnerOnly(u, a) ==
    IF ~Authenticated(u) THEN Reject("cancel", u, a, 403)
    ELSE IF ~Exists(a) THEN Reject("cancel", u, a, 404)
    ELSE IF ~CancelOwner(u, alerts[a]) THEN Reject("cancel", u, a, 403)
    ELSE \E now \in Now :
        /\ Len(alerts[a].timeline) < MaxTimeline
        /\ alerts' = [alerts EXCEPT ![a] =
              [@ EXCEPT !.status = "cancelled",
                        !.timeline = Append(@, TimelineEntry(
                            "Alert cancelled by reporter", u, now,
                            "Reporter cancelled the alert before response"))]]
        /\ clock' = now
        /\ emitted' = <<>>
        /\ response' = Response("cancel", u, a, 200)
        /\ UNCHANGED <<nextId, notifications, userStatus, deviceAccounts,
                       socketVars, raceVars>>

\* PUT /api/alerts/:id/cancel: authenticate, cancelAlert.
cancelAlert(u, a) ==
    IF ~Authenticated(u) THEN Reject("cancel", u, a, 403)
    ELSE IF ~Exists(a) THEN Reject("cancel", u, a, 404)
    ELSE IF ~CancelOwner(u, alerts[a]) THEN Reject("cancel", u, a, 403)
    ELSE IF ~CancelNoResponder(alerts[a]) THEN Reject("cancel", u, a, 400)
    ELSE IF ~CancelOpen(alerts[a]) THEN Reject("cancel", u, a, 400)
    ELSE \E now \in Now :
        /\ Len(alerts[a].timeline) < MaxTimeline
        /\ alerts' = [alerts EXCEPT ![a] =
              [@ EXCEPT !.status = "cancelled",
                        !.timeline = Append(@, TimelineEntry(
                            "Alert cancelled by reporter", u, now,
                            "Reporter cancelled the alert before response"))]]
        /\ clock' = now
        /\ emitted' = <<>>
        /\ response' = Response("cancel", u, a, 200)
        /\ UNCHANGED <<nextId, notifications, userStatus, deviceAccounts,
                       socketVars, raceVars>>

\* DELETE /api/alerts/:id: authenticate, deleteAlert.
deleteAlert(u, a) ==
    IF ~Authenticated(u) THEN Reject("delete", u, a, 403)
    ELSE IF ~Exists(a) THEN Reject("delete", u, a, 404)
    ELSE IF ~DeleteAuthorized(u, alerts[a]) THEN Reject("delete", u, a, 403)
    ELSE
        /\ alerts' = [x \in DOMAIN alerts \ {a} |-> alerts[x]]
        /\ emitted' = <<>>
        /\ response' = Response("delete", u, a, 200)
        /\ UNCHANGED <<nextId, notifications, clock, userStatus,
                       deviceAccounts, socketVars, raceVars>>

\* ---------------------------------------------------------------- Init
Init ==
    /\ alerts = <<>>
    /\ nextId = 1
    /\ notifications = EmptyBag
    /\ clock = 1
    /\ userStatus = [u \in Users |-> "active"]
    /\ deviceAccounts = 0
    /\ emitted = <<>>
    /\ response = Response("none", None, 0, 0)
    /\ joined = [c \in Connections |-> {}]
    /\ inflight = {}
    /\ onlineUsers = <<>>
    /\ connected = Connections
    /\ iotInflight = {}

\* A request body of PUT /api/alerts/:id: the fields it carries.
Body(status, responder, reporter, timelineGiven, timeline) ==
    [status |-> status, responder |-> responder, reporter |-> reporter,
     timelineGiven |-> timelineGiven, timeline |-> timeline]

\* The bodies an update request is tried with: empty, or one field (a
\* status outside the enum, a responder, an emptied timeline).
UpdateBodies ==
    {Body(Absent, Absent, Absent, FALSE, <<>>),
     Body("bogus", Absent, Absent, FALSE, <<>>),
     Body(Absent, "p1", Absent, FALSE, <<>>),
     Body(Absent, Absent, Absent, TRUE, <<>>)}

\* runValidators: status must be one of the schema's enum values.
BodyValid(body) == body.status \in Statuses \cup {Absent}

\* findByIdAndUpdate recording the update as a timeline entry of its own.
ApplyBodyLogged(alert, body) ==
    [alert EXCEPT
        !.status = IF body.status = Absent THEN @ ELSE body.status,
        !.responder = IF body.responder = Absent THEN @ ELSE body.responder,
        !.reporter = IF body.reporter = Absent THEN @ ELSE body.reporter,
        !.timeline = IF body.timelineGiven THEN body.timeline
                     ELSE IF Len(@) < MaxTimeline
                          THEN Append(@, TimelineEntry("Alert updated", None,
                                                       NoTime, None))
                          ELSE @]

\* findByIdAndUpdate(id, {...req.body}): every field of the body replaces
\* the document's field.
ApplyBody(alert, body) ==
    [alert EXCEPT
        !.status = IF body.status = Absent THEN @ ELSE body.status,
        !.responder = IF body.responder = Absent THEN @ ELSE body.responder,
        !.reporter = IF body.reporter = Absent THEN @ ELSE body.reporter,
        !.timeline = IF body.timelineGiven THEN body.timeline ELSE @]

\* updateAlert emitting nothing.
UpdateEventsNone(reporter) == <<>>

\* The event updateAlert emits: alertUpdated to the room of the updated
\* alert's reporter.
UpdateEvents(reporter) == <<ToUser("alertUpdated", reporter)>>

\* PUT /api/alerts/:id: authenticate, updateAlert.
updateAlert(u, a, body) ==
    IF ~Authenticated(u) THEN Reject("update", u, a, 403)
    ELSE IF ~Exists(a) THEN Reject("update", u, a, 404)
    ELSE IF ~UpdateAuthorized(u, alerts[a]) THEN Reject("update", u, a, 403)
    ELSE IF ~BodyValid(body) THEN Reject("update", u, a, 500)
    ELSE
        /\ alerts' = [alerts EXCEPT ![a] = ApplyBody(@, body)]
        /\ emitted' = UpdateEvents(alerts'[a].reporter)
        /\ response' = Response("update", u, a, 200)
        /\ UNCHANGED <<nextId, notifications, clock, userStatus,
                       deviceAccounts, socketVars, raceVars>>

\* req.body.notes of a resolve request.
NotesInputs == {"cleared"}

\* ------------------------------------------------------- specifications
Create == \E u \in Reporters, type \in AlertTypes, valid \in BOOLEAN :
             \E saved \in SUBSET MatchingResponders(type) :
                createAlert(u, type, valid, saved)

\* The type and the coordinates a device request is tried with: missing,
\* well-formed, or text the schema refuses.
IoTTypeInputs == AlertTypes \cup {Absent, "panic"}

CoordInputs == {Absent, "13.62", "north"}

CreateIoT == \E type \in IoTTypeInputs, coords \in CoordInputs,
                geocoded \in BOOLEAN : createIoTAlert(type, coords, geocoded)

Respond == \E u \in Users, a \in AlertIds, notifOk \in BOOLEAN :
              respondToAlert(u, a, notifOk)

Resolve == \E u \in Users, a \in AlertIds, notes \in NotesInputs,
              notifOk \in BOOLEAN : resolveAlert(u, a, notes, notifOk)

Cancel == \E u \in Users, a \in AlertIds : cancelAlert(u, a)

Update == \E u \in Users, a \in AlertIds, body \in UpdateBodies :
             updateAlert(u, a, body)

Delete == \E u \in Users, a \in AlertIds : deleteAlert(u, a)

\* Requests handled one at a time, the lifecycle transitions only.
NextLifecycle == Create \/ CreateIoT \/ Respond \/ Resolve \/ Cancel

SpecLifecycle == Init /\ [][NextLifecycle]_vars

\* Requests handled one at a time, every alert route.
Next == Create \/ CreateIoT \/ Respond \/ Resolve \/ Cancel \/ Update \/ Delete

Spec == Init /\ [][Next]_vars

\* An Alert.type no user of the store has as userType.
UnmatchedTypes == {"fire"}

\* POST /api/alerts for a type no active user matches.
CreateUnmatched == \E u \in Reporters, type \in UnmatchedTypes :
                      createAlert(u, type, TRUE, {})

\* POST /api/alerts with every Notification.create succeeding.
CreateStored == \E u \in Reporters, type \in AlertTypes \cup UnmatchedTypes,
                   valid \in BOOLEAN :
                   createAlert(u, type, valid, MatchingResponders(type))

RespondStored == \E u \in Users, a \in AlertIds : respondToAlert(u, a, TRUE)

ResolveStored == \E u \in Users, a \in AlertIds, notes \in NotesInputs :
                    resolveAlert(u, a, notes, TRUE)

\* Requests handled one at a time over a Notification store that never
\* fails.
NextStored == CreateStored \/ CreateIoT \/ RespondStored \/ ResolveStored \/ Cancel

SpecStored == Init /\ [][NextStored]_vars

\* Requests handled one at a time, the lifecycle transitions, alerts of an
\* unmatched type included.
NextFanOut ==
    Create \/ CreateUnmatched \/ CreateIoT \/ Respond \/ Resolve \/ Cancel

SpecFanOut == Init /\ [][NextFanOut]_vars

\* ---------------------------------------------------------------- sockets
\* socket.join(`user-${userId}`): the room name carries the prefix.
UserRoom(userId) == <<"user-", userId>>

\* A socket event changes no document and answers no request.
SocketStep(op, userId) ==
    /\ response' = Response(op, userId, 0, 0)
    /\ emitted' = <<>>
    /\ UNCHANGED <<alerts, nextId, notifications, clock, userStatus,
                   deviceAccounts, raceVars>>

\* socket.on('join-room'): the connection joins the room of the user id it
\* sent; nothing checks the id.
joinRoom(c, userId) ==
    /\ c \in connected
    /\ joined' = [joined EXCEPT ![c] = @ \cup {UserRoom(userId)}]
    /\ SocketStep("join-room", userId)
    /\ UNCHANGED <<onlineUsers, connected>>

\* ---------------------------------------------------------------- presence
\* A value of the onlineUsers Map together with its key.
PresenceEntry(userId, socketId, location, userType, name, lastUpdate) ==
    [userId |-> userId, socketId |-> socketId, location |-> location,
     userType |-> userType, name |-> name, lastUpdate |-> lastUpdate]

\* onlineUsers.has(userId)
HasEntry(userId) == \E i \in DOMAIN onlineUsers : onlineUsers[i].userId = userId

\* The position of userId's entry in the Map's iteration order.
EntryIndex(userId) ==
    CHOOSE i \in DOMAIN onlineUsers : onlineUsers[i].userId = userId

\* onlineUsers.set leaving an existing entry to the connection that owns it.
MapSetKeepOwner(entry) ==
    IF HasEntry(entry.userId)
    THEN [onlineUsers EXCEPT ![EntryIndex(entry.userId)] =
             [entry EXCEPT !.socketId =
                 onlineUsers[EntryIndex(entry.userId)].socketId]]
    ELSE Append(onlineUsers, entry)

\* onlineUsers.set(userId, entry): an existing key keeps its place in the
\* iteration order, a new key goes to the end.
MapSet(entry) ==
    IF HasEntry(entry.userId)
    THEN [onlineUsers EXCEPT ![EntryIndex(entry.userId)] = entry]
    ELSE Append(onlineUsers, entry)

\* The positions of the entries whose socketId is the connection's.
OwnedBy(c) == {i \in DOMAIN onlineUsers : onlineUsers[i].socketId = c}

\* The disconnect loop: the first entry, in iteration order, whose socketId
\* is the connection's is deleted, and the loop breaks.
AfterDisconnect(c) ==
    IF OwnedBy(c) = {} THEN onlineUsers
    ELSE LET first == CHOOSE i \in OwnedBy(c) : \A k \in OwnedBy(c) : i <= k
         IN SubSeq(onlineUsers, 1, first - 1) \o
            SubSeq(onlineUsers, first + 1, Len(onlineUsers))

\* A socket event of the presence layer: it changes no document.
PresenceStep(op, userId) ==
    /\ response' = Response(op, userId, 0, 0)
    /\ UNCHANGED <<alerts, nextId, notifications, userStatus,
                   deviceAccounts, raceVars>>

\* socket.on('user-online'): the entry of userData.userId is set to the
\* announcing connection and the data it sent, and the directory is
\* broadcast.
userOnline(c, userId, location, userType, name) ==
    \E now \in Now :
        /\ c \in connected
        /\ onlineUsers' = MapSet(PresenceEntry(userId, c, location, userType,
                                               name, now))
        /\ clock' = now
        /\ emitted' = <<Broadcast("online-users-update")>>
        /\ PresenceStep("user-online", userId)
        /\ UNCHANGED <<joined, connected>>

\* update-location keeping the entry's location.
WithLocationKept(entry, location, now) == [entry EXCEPT !.lastUpdate = now]

\* The entry update-location stores: location and lastUpdate replaced.
WithLocation(entry, location, now) ==
    [entry EXCEPT !.location = location, !.lastUpdate = now]

\* socket.on('update-location'): with an entry for userId, its location and
\* lastUpdate are replaced and the change is broadcast; without one nothing
\* happens.
updateLocation(c, userId, location) ==
    /\ c \in connected
    /\ IF HasEntry(userId)
       THEN \E now \in Now :
              /\ onlineUsers' = [onlineUsers EXCEPT ![EntryIndex(userId)] =
                                    WithLocation(@, location, now)]
              /\ clock' = now
              /\ emitted' = <<Broadcast("user-location-update")>>
       ELSE /\ emitted' = <<>>
            /\ UNCHANGED <<onlineUsers, clock>>
    /\ PresenceStep("update-location", userId)
    /\ UNCHANGED <<joined, connected>>

\* socket.on('disconnect'): the connection leaves every room; the first
\* entry it owns is deleted and, when there was one, the directory is
\* broadcast.
disconnect(c) ==
    /\ c \in connected
    /\ connected' = connected \ {c}
    /\ joined' = [joined EXCEPT ![c] = {}]
    /\ onlineUsers' = AfterDisconnect(c)
    /\ emitted' = IF OwnedBy(c) = {} THEN <<>>
                  ELSE <<Broadcast("online-users-update")>>
    /\ PresenceStep("disconnect", c)
    /\ UNCHANGED clock

\* The events of the last request a connection received: those emitted to
\* every connection or to a room it is in.
Delivered(c) ==
    SelectSeq(emitted, LAMBDA e : e.room = Broadcast(e.name).room
                                  \/ e.room \in joined[c])

\* The user ids a client sends with join-room.
JoinUsers == {"c1", "p1"}

JoinRoom == \E c \in Connections, userId \in JoinUsers : joinRoom(c, userId)

Disconnect == \E c \in Connections : disconnect(c)

\* The user ids, locations, roles and names a client announces.
PresenceUsers == {"c1", "p1"}

Locations == {"naga", "pili"}

UserOnline == \E c \in Connections, userId \in PresenceUsers,
                 location \in Locations :
                 userOnline(c, userId, location, UserType[userId], userId)

UpdateLocation == \E c \in Connections, userId \in PresenceUsers,
                     location \in Locations : updateLocation(c, userId, location)

\* The presence layer alone: announcements, moves and disconnects.
NextPresence == UserOnline \/ UpdateLocation \/ Disconnect

SpecPresence == Init /\ [][NextPresence]_vars

\* The lifecycle requests with clients joining and leaving their rooms.
NextSocket == JoinRoom \/ Disconnect \/ Create \/ Respond \/ Resolve

SpecSocket == Init /\ [][NextSocket]_vars

\* ------------------------------------------------- concurrent responds
\* A respond request between its read and its write: the caller, the alert
\* id and the document findById returned.
Inflight(u, a, doc) ==
    [op |-> "respond", caller |-> u, alert |-> a, doc |-> doc]

\* The first half of respondToAlert: authenticate, authorizeRoles and
\* Alert.findById; the handler then holds its own copy of the document.
respondFind(u, a) ==
    /\ Authenticated(u) /\ AuthorizeRoles(u) /\ Exists(a)
    /\ \A r \in inflight : r.caller # u
    /\ inflight' = inflight \cup {Inflight(u, a, alerts[a])}
    /\ response' = Response("find", u, a, 0)
    /\ emitted' = <<>>
    /\ UNCHANGED <<alerts, nextId, notifications, clock, userStatus,
                   deviceAccounts, socketVars, iotInflight>>

\* A request that ends at a guard evaluated on its own copy.
RejectInflight(r, status) ==
    /\ inflight' = inflight \ {r}
    /\ response' = Response(r.op, r.caller, r.alert, status)
    /\ emitted' = <<>>
    /\ UNCHANGED <<alerts, nextId, notifications, clock, userStatus,
                   deviceAccounts, socketVars, iotInflight>>

\* The second half of respondToAlert: the guards on the copy read earlier,
\* then alert.save(), which writes the fields the handler set ($set of
\* responder, status and responseTime, $push of the timeline entry) onto
\* the stored document without comparing versions, then the event and the
\* Notification.
respondSave(r, notifOk) ==
    /\ r \in inflight /\ r.op = "respond"
    /\ IF ~RespondOpen(r.doc) THEN RejectInflight(r, 400)
       ELSE IF ~RespondRoleOk(r.caller, r.doc) THEN RejectInflight(r, 403)
       ELSE IF ~Exists(r.alert) THEN RejectInflight(r, 500)
       ELSE \E now \in Now :
          /\ Len(alerts[r.alert].timeline) < MaxTimeline
          /\ notifOk => BagCardinality(notifications) < MaxNotifs
          /\ alerts' = [alerts EXCEPT ![r.alert] =
                [@ EXCEPT !.responder = r.caller, !.status = "responded",
                          !.responseTime = now,
                          !.timeline = Append(@, TimelineEntry(
                              "Responder assigned and en route",
                              r.caller, now, None))]]
          /\ clock' = now
          /\ inflight' = inflight \ {r}
          /\ IF notifOk
             THEN /\ notifications' = notifications (+)
                        SetToBag({Notif(r.doc.reporter, r.alert,
                                        "alert_responded")})
                  /\ emitted' = <<ToUser("alertResponded", r.doc.reporter),
                                  ToUser("newNotification", r.doc.reporter)>>
                  /\ response' = Response("respond", r.caller, r.alert, 200)
             ELSE /\ notifications' = notifications
                  /\ emitted' = <<ToUser("alertResponded", r.doc.reporter)>>
                  /\ response' = Response("respond", r.caller, r.alert, 500)
          /\ UNCHANGED <<nextId, userStatus, deviceAccounts, socketVars,
                         iotInflight>>

RespondFind == \E u \in Users, a \in AlertIds : respondFind(u, a)

RespondSave == \E r \in inflight, notifOk \in BOOLEAN : respondSave(r, notifOk)

\* Respond requests interleaved at their awaits, with the requests that
\* create and cancel the alert they race for.
NextRace == Create \/ CreateIoT \/ Cancel \/ RespondFind \/ RespondSave

SpecRace == Init /\ [][NextRace]_vars

\* ------------------------------------------------- reassigning updates
\* Bodies of an update request that carry a reporter.
ReporterBodies == {Body(Absent, Absent, "fam", FALSE, <<>>)}

UpdateReporter == \E u \in Users, a \in AlertIds, body \in ReporterBodies :
                     updateAlert(u, a, body)

\* The lifecycle requests with updates that name a reporter.
NextReporter == Create \/ Respond \/ Resolve \/ Cancel \/ UpdateReporter

SpecReporter == Init /\ [][NextReporter]_vars

\* ------------------------------------------------------ resolve notes
\* req.body.notes of a resolve request, more than one text.
NotesTried == {"cleared", "false alarm"}

ResolveNotes == \E u \in Users, a \in AlertIds, notes \in NotesTried,
                   notifOk \in BOOLEAN : resolveAlert(u, a, notes, notifOk)

\* Create, respond and resolve requests, the resolves with differing notes.
NextNotes == Create \/ Respond \/ ResolveNotes

SpecNotes == Init /\ [][NextNotes]_vars

\* ------------------------------------------- concurrent device creates
\* The device requests that may be in flight together.
DeviceRequests == {"d1", "d2"}

\* A device request suspended at an await: the type it carries, whether
\* User.findOne returned the device account, and whether it has got past
\* getIoTReporterUser.
IoTInflight(d, type, found, provisioned) ==
    [request |-> d, type |-> type, found |-> found,
     provisioned |-> provisioned]

\* A step of a device request that has not answered yet.
IoTStepOn(op, d) ==
    /\ response' = Response(op, d, 0, 0)
    /\ emitted' = <<>>
    /\ UNCHANGED <<alerts, nextId, notifications, clock, userStatus,
                   socketVars, inflight>>

\* createIoTAlert up to the lookup in getIoTReporterUser: the body passes
\* the presence check and User.findOne({email}) is answered.
iotFindUser(d, type) ==
    /\ \A r \in iotInflight : r.request # d
    /\ iotInflight' = iotInflight \cup
          {IoTInflight(d, type, deviceAccounts > 0, FALSE)}
    /\ IoTStepOn("iot-lookup", d)
    /\ UNCHANGED deviceAccounts

\* The rest of getIoTReporterUser: a request that found the account goes
\* on with it; one that found none calls User.create, which adds an
\* account, unless an account exists by now and the unique index on email
\* (`uniqueIndex`: whether the store has built and enforces it) refuses the
\* duplicate, which ends the request in the catch with 500.
iotProvision(r, uniqueIndex) ==
    /\ r \in iotInflight /\ ~r.provisioned
    /\ IF ~r.found /\ deviceAccounts > 0 /\ uniqueIndex
       THEN /\ iotInflight' = iotInflight \ {r}
            /\ response' = Response("iot", r.request, 0, 500)
            /\ emitted' = <<>>
            /\ UNCHANGED <<alerts, nextId, notifications, clock, userStatus,
                           deviceAccounts, socketVars, inflight>>
       ELSE /\ iotInflight' = (iotInflight \ {r}) \cup
                  {IoTInflight(r.request, r.type, r.found, TRUE)}
            /\ deviceAccounts' = IF r.found THEN deviceAccounts
                                 ELSE deviceAccounts + 1
            /\ IoTStepOn("iot-account", r.request)

\* The rest of createIoTAlert: reverseGeocode, Alert.create, the broadcast
\* and the answer.
iotCreateAlert(r, geocoded) ==
    /\ r \in iotInflight /\ r.provisioned
    /\ \E now \in Now :
        /\ nextId <= MaxAlerts
        /\ alerts' = alerts @@ (nextId :> NewIoTAlert(r.type, geocoded, now))
        /\ nextId' = nextId + 1
        /\ clock' = now
        /\ iotInflight' = iotInflight \ {r}
        /\ emitted' = <<Broadcast("new-alert")>>
        /\ response' = Response("iot", r.request, nextId, 201)
        /\ UNCHANGED <<notifications, userStatus, deviceAccounts,
                       socketVars, inflight>>

IoTFindUser == \E d \in DeviceRequests, type \in AlertTypes :
                  iotFindUser(d, type)

IoTProvision == \E r \in iotInflight, uniqueIndex \in BOOLEAN :
                   iotProvision(r, uniqueIndex)

IoTCreateAlert == \E r \in iotInflight, geocoded \in BOOLEAN :
                     iotCreateAlert(r, geocoded)

\* Device requests interleaved at their awaits, with the responds and
\* resolves of the alerts they create.
NextDeviceRace ==
    IoTFindUser \/ IoTProvision \/ IoTCreateAlert \/ Respond \/ Resolve

SpecDeviceRace == Init /\ [][NextDeviceRace]_vars

\* ------------------------------------------------------ account status
\* The :id values the status route is called with: two accounts and an id
\* that no user has.
StatusTargets == {"c1", "p1", "ghost"}

\* The status values of the request bodies: the three of the schema and
\* one that is none of them.
StatusInputs == UserStatuses \cup {"banned"}

\* PUT /api/users/:id/status: authenticate, authorizeAdmin,
\* updateUserStatus.
updateUserStatus(u, target, status) ==
    IF ~Authenticated(u) THEN Reject("status", u, 0, 403)
    ELSE IF UserType[u] # "admin" THEN Reject("status", u, 0, 403)
    ELSE IF status \notin UserStatuses THEN Reject("status", u, 0, 400)
    ELSE IF target \notin Users THEN Reject("status", u, 0, 404)
    ELSE /\ userStatus' = [userStatus EXCEPT ![target] = status]
         /\ response' = Response("status", u, 0, 200)
         /\ emitted' = <<>>
         /\ UNCHANGED <<alerts, nextId, notifications, clock, deviceAccounts,
                        socketVars, raceVars>>

UpdateUserStatus == \E u \in Users, target \in StatusTargets,
                       status \in StatusInputs :
                       updateUserStatus(u, target, status)

\* The update body of the status runs: one that names a responder.
StatusBodies == {Body(Absent, "p1", Absent, FALSE, <<>>)}

UpdateUnderStatus == \E u \in Users, a \in AlertIds, body \in StatusBodies :
                        updateAlert(u, a, body)

\* The alert routes with the admin's status route.
NextStatus ==
    \/ Create \/ Respond \/ Resolve \/ Cancel \/ UpdateUnderStatus \/ Delete
    \/ UpdateUserStatus

SpecStatus == Init /\ [][NextStatus]_vars

\* ------------------------------------------ cancel racing with respond
\* A cancel request suspended between its read and its write.
CancelInflight(u, a, doc) ==
    [op |-> "cancel", caller |-> u, alert |-> a, doc |-> doc]

\* The first half of cancelAlert: authenticate and Alert.findById.
cancelFind(u, a) ==
    /\ Authenticated(u) /\ Exists(a)
    /\ \A r \in inflight : r.caller # u
    /\ inflight' = inflight \cup {CancelInflight(u, a, alerts[a])}
    /\ response' = Response("find", u, a, 0)
    /\ emitted' = <<>>
    /\ UNCHANGED <<alerts, nextId, notifications, clock, userStatus,
                   deviceAccounts, socketVars, iotInflight>>

\* The second half of cancelAlert: the guards on the copy read earlier,
\* then alert.save(), which writes what the handler changed ($set of
\* status, $push of the timeline entry) onto the stored document without
\* comparing versions.
cancelSave(r) ==
    /\ r \in inflight /\ r.op = "cancel"
    /\ IF ~CancelOwner(r.caller, r.doc) THEN RejectInflight(r, 403)
       ELSE IF ~CancelNoResponder(r.doc) THEN RejectInflight(r, 400)
       ELSE IF ~CancelOpen(r.doc) THEN RejectInflight(r, 400)
       ELSE IF ~Exists(r.alert) THEN RejectInflight(r, 500)
       ELSE \E now \in Now :
          /\ Len(alerts[r.alert].timeline) < MaxTimeline
          /\ alerts' = [alerts EXCEPT ![r.alert] =
                [@ EXCEPT !.status = "cancelled",
                          !.timeline = Append(@, TimelineEntry(
                              "Alert cancelled by reporter", r.caller, now,
                              "Reporter cancelled the alert before response"))]]
          /\ clock' = now
          /\ inflight' = inflight \ {r}
          /\ emitted' = <<>>
          /\ response' = Response("cancel", r.caller, r.alert, 200)
          /\ UNCHANGED <<nextId, notifications, userStatus, deviceAccounts,
                         socketVars, iotInflight>>

CancelFind == \E u \in Users, a \in AlertIds : cancelFind(u, a)

CancelSave == \E r \in inflight : cancelSave(r)

\* Cancel and respond requests interleaved at their awaits.
NextCancelRace ==
    Create \/ RespondFind \/ RespondSave \/ CancelFind \/ CancelSave

SpecCancelRace == Init /\ [][NextCancelRace]_vars

\* -------------------------------------------------- notification routes
\* A notification no user has: the :id of a request that names none.
UnknownNotification ==
    [user |-> "c1", alert |-> 0, type |-> "none", read |-> FALSE]

\* findOne({_id}) with the owner left out of the filter.
FoundNotificationById(u, n) == BagIn(n, notifications)

\* Notification.findOne({ _id: req.params.id, user: req.user.id })
FoundNotification(u, n) == BagIn(n, notifications) /\ n.user = u

\* The answer of a notification route; no alert and no event is involved.
NotificationStep(op, u, status) ==
    /\ response' = Response(op, u, 0, status)
    /\ emitted' = <<>>
    /\ UNCHANGED <<alerts, nextId, clock, userStatus, deviceAccounts,
                   socketVars, raceVars>>

\* PUT /api/notifications/:id/read: authenticate, markAsRead.
markAsRead(u, n) ==
    IF ~Authenticated(u) THEN Reject("read", u, 0, 403)
    ELSE IF ~FoundNotification(u, n) THEN Reject("read", u, 0, 404)
    ELSE /\ notifications' = (notifications (-) SetToBag({n}))
                                (+) SetToBag({[n EXCEPT !.read = TRUE]})
         /\ NotificationStep("read", u, 200)

\* updateMany({ user, read: false }, { read: true }) on the collection.
ReadAll(u, bag) ==
    LET kept == {n \in DOMAIN bag : n.user # u}
        mine == {[n EXCEPT !.read = TRUE] : n \in {x \in DOMAIN bag : x.user = u}}
    IN [m \in kept \cup mine |->
          IF m.user # u THEN bag[m]
          ELSE CopiesIn(m, bag) + CopiesIn([m EXCEPT !.read = FALSE], bag)]

\* PUT /api/notifications/read-all: authenticate, markAllAsRead.
markAllAsRead(u) ==
    IF ~Authenticated(u) THEN Reject("read-all", u, 0, 403)
    ELSE /\ notifications' = ReadAll(u, notifications)
         /\ NotificationStep("read-all", u, 200)

\* DELETE /api/notifications/:id: authenticate, deleteNotification.
deleteNotification(u, n) ==
    IF ~Authenticated(u) THEN Reject("delete-notification", u, 0, 403)
    ELSE IF ~FoundNotification(u, n)
         THEN Reject("delete-notification", u, 0, 404)
    ELSE /\ notifications' = notifications (-) SetToBag({n})
         /\ NotificationStep("delete-notification", u, 200)

\* deleteMany({ user, read: true }) on the collection.
ClearRead(u, bag) ==
    [n \in {x \in DOMAIN bag : ~(x.user = u /\ x.read)} |-> bag[n]]

\* DELETE /api/notifications/clear-read: authenticate,
\* clearReadNotifications.
clearReadNotifications(u) ==
    IF ~Authenticated(u) THEN Reject("clear-read", u, 0, 403)
    ELSE /\ notifications' = ClearRead(u, notifications)
         /\ NotificationStep("clear-read", u, 200)

\* The :id values a request names: every stored notification and one
\* that is not stored.
NotificationIds == BagToSet(notifications) \cup {UnknownNotification}

MarkAsRead == \E u \in Users, n \in NotificationIds : markAsRead(u, n)

MarkAllAsRead == \E u \in Users : markAllAsRead(u)

DeleteNotification == \E u \in Users, n \in NotificationIds :
                         deleteNotification(u, n)

ClearReadNotifications == \E u \in Users : clearReadNotifications(u)

\* The requests that store notifications with the notification routes.
NextNotifications ==
    \/ Create \/ Respond \/ Resolve
    \/ MarkAsRead \/ MarkAllAsRead \/ DeleteNotification
    \/ ClearReadNotifications

SpecNotifications == Init /\ [][NextNotifications]_vars

\* --------------------------------------------------------------- claims
\* What the step's request was: its operation, caller and alert.
OnExisting(op) == response'.op = op /\ response'.alert \in DOMAIN alerts

Target == alerts[response'.alert]

CallerRole == UserType[response'.caller]

AlertUntouched == alerts' = alerts /\ notifications' = notifications

\* C1 as stated: in every state reached by create, device-create, respond,
\* resolve and cancel requests, an alert's responder is set if and only if
\* its status is responded or resolved.
C1_ResponderIffResponded ==
    \A a \in DOMAIN alerts :
        (alerts[a].responder # None) <=>
            (alerts[a].status \in {"responded", "resolved"})

\* C1 amended: under those requests handled one at a time, an alert with a
\* responder is responded or resolved, a responded alert has a responder,
\* and a resolved alert has no responder only when every resolve of it was
\* an admin's.
C1_ResponderImpliesResponded ==
    \A a \in DOMAIN alerts :
        /\ alerts[a].responder # None =>
              alerts[a].status \in {"responded", "resolved"}
        /\ alerts[a].status = "responded" => alerts[a].responder # None
        /\ (alerts[a].status = "resolved" /\ alerts[a].responder = None) =>
              \A i \in DOMAIN alerts[a].timeline :
                  alerts[a].timeline[i].action = "Alert resolved" =>
                      UserType[alerts[a].timeline[i].user] = "admin"

\* C1's case: an alert somebody responded to has been resolved.
C1_Witness ==
    /\ response.op = "resolve"
    /\ \E a \in DOMAIN alerts :
          alerts[a].status = "resolved" /\ alerts[a].responder # None

\* C2: resolved and cancelled are terminal: once an alert is resolved or
\* cancelled, no later respond, resolve or cancel request succeeds on it or
\* changes its status.
C2_TerminalIsFinal ==
    [][\A a \in DOMAIN alerts :
          alerts[a].status \in {"resolved", "cancelled"} =>
              /\ alerts'[a].status = alerts[a].status
              /\ ~(/\ response'.alert = a
                   /\ response'.op \in {"respond", "resolve", "cancel"}
                   /\ response'.status = 200)]_vars

\* C3: a resolve request on an alert that is already resolved does not
\* succeed and leaves the alert (resolvedTime, status, timeline) unchanged;
\* the assigned responder and an admin are answered 400.
C3_ResolveResolvedRejected ==
    [][(OnExisting("resolve") /\ Target.status = "resolved") =>
          /\ response'.status # 200
          /\ alerts' = alerts
          /\ (Target.responder = response'.caller \/ CallerRole = "admin") =>
                response'.status = 400]_vars

\* C4 as stated: a cancel request on an alert whose responder is set is
\* answered 400 for every caller, reporter or not.
C4_CancelRespondedIs400 ==
    [][(OnExisting("cancel") /\ Target.responder # None) =>
          response'.status = 400]_vars

\* C4 amended: a cancel request on an alert whose responder is set fails for
\* every caller and leaves the alert unchanged: with 400 when the caller is
\* the alert's reporter, with 403 when the caller is anybody else.
C4_CancelRespondedFails ==
    [][(OnExisting("cancel") /\ Target.responder # None) =>
          /\ response'.status =
                IF response'.caller = Target.reporter THEN 400 ELSE 403
          /\ AlertUntouched]_vars

\* C4's case: the reporter's cancel of an alert somebody responded to was
\* answered 400.
C4_Witness ==
    /\ response.op = "cancel" /\ response.status = 400
    /\ response.alert \in DOMAIN alerts
    /\ alerts[response.alert].responder # None
    /\ alerts[response.alert].reporter = response.caller

\* C5 as stated: a respond request on an existing alert, in any status, by
\* a caller whose role differs from the alert's type and who is not admin
\* is answered 403 and leaves the alert unchanged.
C5_RespondWrongRoleIs403 ==
    [][(OnExisting("respond") /\ CallerRole # Target.type
            /\ CallerRole # "admin") =>
          response'.status = 403 /\ AlertUntouched]_vars

\* C5 amended: such a request always fails and leaves the alert unchanged;
\* it is answered 403 when the alert is pending or active or the caller has
\* no responder role, and 400 when the caller has a responder role and the
\* alert is responded, resolved or cancelled.
C5_RespondWrongRoleFails ==
    [][(OnExisting("respond") /\ CallerRole # Target.type
            /\ CallerRole # "admin") =>
          /\ AlertUntouched
          /\ response'.status =
                IF \/ Target.status \in {"pending", "active"}
                   \/ CallerRole \notin {"police", "hospital", "fire"}
                THEN 403 ELSE 400]_vars

\* C5's case: a responder of another type was refused an open alert.
C5_Witness ==
    /\ response.op = "respond" /\ response.status = 403
    /\ response.alert \in DOMAIN alerts
    /\ UserType[response.caller] = "police"
    /\ alerts[response.alert].type = "family"
    /\ alerts[response.alert].status \in {"pending", "active"}

\* C6: a resolve request on an existing alert by a caller who is neither
\* the alert's current responder nor an admin is answered 403 and leaves the
\* alert unchanged, also when the alert has no responder.
C6_ResolveUnauthorizedIs403 ==
    [][(OnExisting("resolve") /\ response'.caller # Target.responder
            /\ CallerRole # "admin") =>
          response'.status = 403 /\ AlertUntouched]_vars

\* C6's case: a responder refused on an alert that has no responder.
C6_Witness ==
    /\ response.op = "resolve" /\ response.status = 403
    /\ response.alert \in DOMAIN alerts
    /\ UserType[response.caller] = "police"
    /\ alerts[response.alert].responder = None

\* C7 as stated: a respond request on a pending or active alert, by a caller
\* whose role equals the alert's type or by an admin, succeeds (no guard
\* refuses it) and leaves the alert responded, with the caller as responder
\* and responseTime set.
C7_RespondSucceeds ==
    [][(OnExisting("respond") /\ Target.status \in {"pending", "active"}
            /\ (CallerRole = Target.type \/ CallerRole = "admin")) =>
          /\ response'.status \notin {400, 403, 404}
          /\ alerts'[response'.alert].status = "responded"
          /\ alerts'[response'.alert].responder = response'.caller
          /\ alerts'[response'.alert].responseTime # NoTime]_vars

\* C7 amended: a respond request on a pending or active alert, by a police,
\* hospital or fire caller whose role equals the alert's type or by an
\* admin, leaves the alert responded, with the caller as responder and
\* responseTime set; it is answered 200 when the reporter's Notification is
\* stored and 500 when storing it fails. A caller of another role, the
\* family role on a family alert included, is answered 403.
C7_ResponderRespondSucceeds ==
    [][(OnExisting("respond") /\ Target.status \in {"pending", "active"}) =>
          IF \/ (CallerRole = Target.type
                    /\ CallerRole \in {"police", "hospital", "fire"})
             \/ CallerRole = "admin"
          THEN /\ alerts'[response'.alert] =
                     [Target EXCEPT
                        !.status = "responded",
                        !.responder = response'.caller,
                        !.responseTime = clock',
                        !.timeline = Append(@, TimelineEntry(
                            "Responder assigned and en route",
                            response'.caller, clock', None))]
               /\ clock' # NoTime
               /\ \/ /\ response'.status = 200
                     /\ notifications' = notifications (+) SetToBag(
                            {Notif(Target.reporter, response'.alert,
                                   "alert_responded")})
                  \/ /\ response'.status = 500
                     /\ notifications' = notifications
          ELSE response'.status = 403 /\ AlertUntouched]_vars

\* C7's case: a responder of the alert's type responded to an open alert
\* and was answered 200.
C7_Witness ==
    /\ response.op = "respond" /\ response.status = 200
    /\ response.alert \in DOMAIN alerts
    /\ alerts[response.alert].status = "responded"
    /\ alerts[response.alert].responder = response.caller
    /\ UserType[response.caller] = alerts[response.alert].type

\* C8: a cancel request on an existing alert succeeds exactly when the
\* caller is the alert's reporter, the alert has no responder and its status
\* is pending or active; on success the status becomes cancelled; a cancel by
\* anybody but the reporter is answered 403 and leaves the alert unchanged.
C8_CancelExactly ==
    [][OnExisting("cancel") =>
          /\ response'.status = 200 <=>
                /\ response'.caller = Target.reporter
                /\ Target.responder = None
                /\ Target.status \in {"pending", "active"}
          /\ response'.status = 200 =>
                alerts'[response'.alert].status = "cancelled"
          /\ response'.status # 200 => AlertUntouched
          /\ response'.caller # Target.reporter =>
                response'.status = 403]_vars

\* C8's case: the reporter cancelled an alert nobody had responded to.
C8_Witness ==
    /\ response.op = "cancel" /\ response.status = 200
    /\ alerts[response.alert].status = "cancelled"
    /\ alerts[response.alert].reporter = response.caller

\* C9: a respond, resolve, cancel, update or delete request rejected by a
\* state guard or a role or ownership guard (answered 400 or 403) leaves
\* every alert (status, responder, responseTime, resolvedTime, timeline) as
\* it was and creates no Notification.
C9_RejectionsChangeNothing ==
    [][(response'.op \in {"respond", "resolve", "cancel", "update", "delete"}
            /\ response'.status \in {400, 403}) =>
          AlertUntouched]_vars

\* C9's case: a respond refused by the role guard on an open alert.
C9_Witness ==
    /\ response.op = "respond" /\ response.status = 403
    /\ response.alert \in DOMAIN alerts
    /\ UserType[response.caller] \in ResponderRoles
    /\ alerts[response.alert].status \in {"pending", "active"}

\* C10: across create, update, respond, resolve and cancel requests an
\* alert's timeline is never empty, and every step keeps the entries it had,
\* in their order, at the front of the timeline.
C10_TimelineAppendOnly ==
    [][\A a \in DOMAIN alerts \cap DOMAIN alerts' :
          /\ alerts'[a].timeline # <<>>
          /\ Len(alerts'[a].timeline) >= Len(alerts[a].timeline)
          /\ SubSeq(alerts'[a].timeline, 1, Len(alerts[a].timeline)) =
                alerts[a].timeline]_vars

\* The Notifications a step added to the store.
NewNotifications == notifications' (-) notifications

\* C11: an authenticated create of an alert of type T yields an alert with
\* status pending and the caller as reporter, and creates exactly one
\* Notification for each active user whose role is T, plus one family_alert
\* Notification for each family member of the reporter, and no other.
C11_CreateFanOut ==
    [][(response'.op = "create" /\ response'.status = 201) =>
          /\ alerts'[response'.alert].status = "pending"
          /\ alerts'[response'.alert].reporter = response'.caller
          /\ NewNotifications =
                NotifBag(MatchingResponders(alerts'[response'.alert].type),
                         response'.alert, "alert")
                (+) NotifBag(RegisteredFamily(response'.caller),
                             response'.alert, "family_alert")]_vars

\* A device create tried with this type and these coordinates, whatever the
\* geocoder answers.
IoTStep(type, coords, geocoded) == createIoTAlert(type, coords, geocoded)

\* The alert a successful device create leaves: active, reported by the
\* device account, one timeline entry, and the coordinate-literal address
\* when the geocoder gave none.
IoTCreated(geocoded) ==
    /\ response'.op = "iot" /\ response'.status = 201
    /\ response'.alert \in DOMAIN alerts' \ DOMAIN alerts
    /\ alerts'[response'.alert].status = "active"
    /\ alerts'[response'.alert].reporter = DeviceUser
    /\ Len(alerts'[response'.alert].timeline) = 1
    /\ ~geocoded => alerts'[response'.alert].address = "coordinates"

TargetedAt(u) ==
    SelectSeq(emitted, LAMBDA e :
        /\ e.name \in {"newAlert", "alertResponded", "alertResolved",
                       "alertUpdated", "newNotification"}
        /\ e = ToUser(e.name, u))

\* C13: while a connection that sent join-room for user U stays connected,
\* every targeted lifecycle event produced for U is delivered to it: the
\* room it joined is the room the event is emitted to.
C13_JoinedRoomReceives ==
    \A c \in Connections, u \in Users :
        UserRoom(u) \in joined[c] =>
            \A i \in DOMAIN TargetedAt(u) :
                \E j \in DOMAIN Delivered(c) :
                    Delivered(c)[j] = TargetedAt(u)[i]

\* The timeline entries a respond wrote.
RespondEntries(alert) ==
    SelectSeq(alert.timeline,
              LAMBDA e : e.action = "Responder assigned and en route")

\* C14: for every interleaving of concurrent respond requests by different
\* eligible responders on the same open alert, each reading the alert,
\* checking the guard and writing as separate steps, at most one request
\* succeeds, and the alert's responder and its single respond timeline
\* entry belong to that request's caller.
C14_OneRespondWins ==
    [][(response'.op = "respond" /\ response'.status = 200) =>
          /\ RespondEntries(alerts[response'.alert]) = <<>>
          /\ alerts'[response'.alert].responder = response'.caller
          /\ Len(RespondEntries(alerts'[response'.alert])) = 1
          /\ RespondEntries(alerts'[response'.alert])[1].user =
                response'.caller]_vars

\* C15: when persisting a Notification fails during a create, respond or
\* resolve, the transition still reports success: a create, respond or
\* resolve request that has persisted the alert's new state is answered 201
\* or 200, never with an error.
C15_NotificationFailureSwallowed ==
    [][(response'.op \in {"create", "respond", "resolve"}
            /\ alerts' # alerts) =>
          response'.status \in {200, 201}]_vars

\* C16: a create, respond, resolve, cancel or update request answered with
\* an error (4xx or 5xx) leaves no effect: the alert store is unchanged, no
\* Notification was created and no event was emitted.
C16_ErrorsLeaveNoEffect ==
    [][(response'.op \in {"create", "respond", "resolve", "cancel", "update"}
            /\ response'.status >= 400) =>
          /\ alerts' = alerts
          /\ notifications' = notifications
          /\ emitted' = <<>>]_vars

\* C17: an alert's reporter is fixed at creation: no update, respond,
\* resolve or cancel request by an authorized caller changes it.
C17_ReporterFixed ==
    [][\A a \in DOMAIN alerts \cap DOMAIN alerts' :
          alerts'[a].reporter = alerts[a].reporter]_vars

\* C18: under respond, resolve and cancel requests handled one after the
\* other, responder and responseTime are assigned at most once: once an
\* alert has a responder, no later request changes its responder or its
\* responseTime, and a respond request sets both only on an alert that has
\* neither.
C18_ResponderAssignedOnce ==
    [][\A a \in DOMAIN alerts \cap DOMAIN alerts' :
          /\ alerts[a].responder # None =>
                /\ alerts'[a].responder = alerts[a].responder
                /\ alerts'[a].responseTime = alerts[a].responseTime
          /\ alerts[a].responseTime # NoTime =>
                alerts'[a].responseTime = alerts[a].responseTime
          /\ alerts'[a].responder # alerts[a].responder =>
                /\ response'.op = "respond" /\ response'.alert = a
                /\ alerts'[a].responder = response'.caller
                /\ alerts'[a].responseTime # NoTime]_vars

\* C18's case: after a responder was assigned, another eligible caller's
\* respond was refused and a resolve went through, the responder kept.
C18_Witness ==
    /\ response.op = "respond" /\ response.status = 400
    /\ response.alert \in DOMAIN alerts
    /\ alerts[response.alert].status = "resolved"
    /\ alerts[response.alert].responder \notin {None, response.caller}
    /\ alerts[response.alert].responseTime # NoTime
    /\ UserType[response.caller] = "admin"

\* C19: every authenticated create that persists an alert emits the global
\* new-alert broadcast to all connections, once and after the targeted
\* events, whether or not a matching responder or a family member exists and
\* whether or not the Notifications of the targeted steps are stored.
C19_CreateBroadcasts ==
    [][(response'.op = "create" /\ DOMAIN alerts' # DOMAIN alerts) =>
          /\ response'.status = 201
          /\ emitted' # <<>>
          /\ \A i \in DOMAIN emitted' :
                emitted'[i] = Broadcast("new-alert") <=> i = Len(emitted')]_vars

\* C19's case: an alert of a type no active user matches was created, no
\* targeted event or Notification was produced, and the broadcast went out.
C19_Witness ==
    /\ response.op = "create" /\ response.status = 201
    /\ alerts[response.alert].type \in UnmatchedTypes
    /\ MatchingResponders(alerts[response.alert].type) = {}
    /\ notifications = EmptyBag
    /\ emitted = <<Broadcast("new-alert")>>

\* The last entry of an alert's timeline.
LastEntry(alert) == alert.timeline[Len(alert.timeline)]

\* C20: a successful resolve emits alertResolved and then alertUpdated to
\* the reporter, then stores one Notification for the reporter (followed by
\* its newNotification event), the events in the order they were produced;
\* the two events are out before the Notification is stored, as the resolve
\* whose Notification is refused shows; and the one timeline entry it
\* appends carries the notes the caller supplied.
C20_ResolveSideEffects ==
    [][\A u \in Users, a \in DOMAIN alerts, notes \in NotesTried,
          notifOk \in BOOLEAN :
          (resolveAlert(u, a, notes, notifOk)
              /\ response'.status \in {200, 500}) =>
            /\ alerts'[a].timeline = Append(alerts[a].timeline,
                  TimelineEntry("Alert resolved", u, clock', notes))
            /\ alerts'[a].status = "resolved"
            /\ IF response'.status = 200
               THEN /\ emitted' =
                          <<ToUser("alertResolved", alerts[a].reporter),
                            ToUser("alertUpdated", alerts[a].reporter),
                            ToUser("newNotification", alerts[a].reporter)>>
                    /\ NewNotifications = SetToBag(
                          {Notif(alerts[a].reporter, a, "alert_resolved")})
               ELSE /\ emitted' =
                          <<ToUser("alertResolved", alerts[a].reporter),
                            ToUser("alertUpdated", alerts[a].reporter)>>
                    /\ NewNotifications = EmptyBag]_vars

\* C20's case: the assigned responder resolved the alert with notes other
\* than the first of the notes tried and was answered 200.
C20_Witness ==
    /\ response.op = "resolve" /\ response.status = 200
    /\ alerts[response.alert].responder = response.caller
    /\ LastEntry(alerts[response.alert]).notes = "false alarm"
    /\ Len(emitted) = 3 /\ emitted[1].name = "alertResolved"

GrownByOne(old, new) ==
    /\ Len(new) = Len(old) + 1
    /\ SubSeq(new, 1, Len(old)) = old

\* C22: each successful create, device create, respond, resolve and cancel
\* appends exactly one entry to the alert's timeline (a created alert starts
\* with one entry; otherwise the length grows by one, at the end, the
\* earlier entries kept), and a successful update whose body carries no
\* timeline leaves the timeline as it was.
C22_OneEntryPerTransition ==
    [][/\ (response'.op \in {"create", "iot"} /\ response'.status = 201) =>
             /\ response'.alert \in DOMAIN alerts' \ DOMAIN alerts
             /\ Len(alerts'[response'.alert].timeline) = 1
       /\ (response'.op \in {"respond", "resolve", "cancel"}
              /\ response'.status = 200) =>
             GrownByOne(alerts[response'.alert].timeline,
                        alerts'[response'.alert].timeline)
       /\ (response'.op = "update" /\ response'.status = 200) =>
             \A body \in {b \in UpdateBodies : ~b.timelineGiven} :
                updateAlert(response'.caller, response'.alert, body) =>
                  alerts'[response'.alert].timeline =
                      alerts[response'.alert].timeline]_vars

\* C22's case: a resolve added the third entry to a timeline that create
\* and respond had started.
C22_Witness ==
    /\ response.op = "resolve" /\ response.status = 200
    /\ Len(alerts[response.alert].timeline) = 3
    /\ alerts[response.alert].timeline[1].action = "Alert created"
    /\ alerts[response.alert].timeline[3].action = "Alert resolved"

\* The entry of userId in a directory.
EntryOf(dir, userId) ==
    dir[CHOOSE i \in DOMAIN dir : dir[i].userId = userId]

\* C23: update-location for a userId without a presence entry changes
\* nothing and emits nothing; for a userId with an entry it replaces that
\* entry's location by the location sent and its lastUpdate by the time of
\* the event, leaves its connection handle, role and name, every other
\* entry and the number and order of entries as they were, and emits exactly
\* one user-location-update broadcast.
C23_UpdateLocationFrame ==
    [][response'.op = "update-location" =>
        \A c \in Connections, location \in Locations :
          updateLocation(c, response'.caller, location) =>
            IF ~HasEntry(response'.caller)
            THEN onlineUsers' = onlineUsers /\ emitted' = <<>>
            ELSE /\ Len(onlineUsers') = Len(onlineUsers)
                 /\ \A i \in DOMAIN onlineUsers :
                       IF onlineUsers[i].userId = response'.caller
                       THEN onlineUsers'[i] =
                               [onlineUsers[i] EXCEPT !.location = location,
                                                      !.lastUpdate = clock']
                       ELSE onlineUsers'[i] = onlineUsers[i]
                 /\ emitted' = <<Broadcast("user-location-update")>>]_vars

\* C23's case: a user announced at one place has been moved to the other,
\* beside another user's entry.
C23_Witness ==
    /\ response.op = "update-location"
    /\ emitted = <<Broadcast("user-location-update")>>
    /\ Len(onlineUsers) = 2
    /\ EntryOf(onlineUsers, response.caller).location = "pili"
    /\ EntryOf(onlineUsers, response.caller).lastUpdate = 2
    /\ \E i \in DOMAIN onlineUsers : onlineUsers[i].location = "naga"

\* C24: after a connection disconnects, no presence entry whose connection
\* handle is that connection remains, whatever it announced before; every
\* presence entry refers to a connection that is still connected.
C24_EntriesOfConnectedOnly ==
    \A i \in DOMAIN onlineUsers : onlineUsers[i].socketId \in connected

\* The entries of a directory that a connection does not own, in order.
NotOwnedBy(dir, c) == SelectSeq(dir, LAMBDA e : e.socketId # c)

\* C29: the presence directory holds at most one entry per userId and the
\* latest announcer owns it: an announcement makes the announcing
\* connection the handle of the userId's entry, whoever owned it before, and
\* touches no other entry; the disconnect of a connection that owns no entry
\* (its userId having been announced again by another connection) removes
\* nothing and emits nothing, and the disconnect of the connection that owns
\* an entry removes it and broadcasts the directory, whoever else is still
\* connected; a disconnect never removes an entry of another connection.
C29_LatestAnnouncerOwns ==
    [][/\ \A i, j \in DOMAIN onlineUsers' :
             onlineUsers'[i].userId = onlineUsers'[j].userId => i = j
       /\ response'.op = "user-online" =>
             \A c \in Connections, location \in Locations :
                userOnline(c, response'.caller, location,
                           UserType[response'.caller], response'.caller) =>
                  /\ EntryOf(onlineUsers', response'.caller).socketId = c
                  /\ \A i \in DOMAIN onlineUsers :
                        onlineUsers[i].userId # response'.caller =>
                            onlineUsers'[i] = onlineUsers[i]
       /\ response'.op = "disconnect" =>
             /\ NotOwnedBy(onlineUsers', response'.caller) =
                   NotOwnedBy(onlineUsers, response'.caller)
             /\ IF OwnedBy(response'.caller) = {}
                THEN onlineUsers' = onlineUsers /\ emitted' = <<>>
                ELSE /\ Len(onlineUsers') = Len(onlineUsers) - 1
                     /\ emitted' = <<Broadcast("online-users-update")>>]_vars

\* C29's case: s1 has disconnected without any effect while the one entry
\* of the directory, announced last by s2, is still there.
C29_Witness ==
    /\ response.op = "disconnect" /\ response.caller = "s1"
    /\ emitted = <<>>
    /\ Len(onlineUsers) = 1
    /\ onlineUsers[1].socketId = "s2" /\ onlineUsers[1].lastUpdate = 2
    /\ "s2" \in connected

\* C25: for every interleaving of concurrent first-use device creates, the
\* lookup of the device account and its creation being separate steps, at
\* most one device account exists afterwards and every such request
\* succeeds.
C25_OneDeviceAccount ==
    [][/\ deviceAccounts' <= 1
       /\ response'.op = "iot" => response'.status = 201]_vars

\* The requests of the alert routes that carry a credential.
CredentialOps == {"create", "respond", "resolve", "cancel", "update", "delete"}

\* C26: once an account's status is inactive or suspended, every create,
\* respond, resolve, cancel, update or delete request with that account's
\* credential is answered 403, changes no alert, stores no notification
\* and emits nothing.
C26_InactiveRejected ==
    [][(/\ response'.op \in CredentialOps
        /\ response'.caller \in Users
        /\ userStatus[response'.caller] # "active")
       => /\ response'.status = 403
          /\ AlertUntouched
          /\ emitted' = <<>>]_vars

\* The suspended responder's respond on an open police alert is refused.
C26_Witness ==
    /\ userStatus["p1"] = "suspended"
    /\ response = Response("respond", "p1", 1, 403)
    /\ 1 \in DOMAIN alerts
    /\ alerts[1].type = "police"
    /\ alerts[1].status = "pending"
    /\ alerts[1].responder = None

\* Whether the request answered in this step was made on a stored alert by
\* its reporter or by an admin.
ByReporterOrAdmin ==
    \/ alerts[response'.alert].reporter = response'.caller
    \/ UserType[response'.caller] = "admin"

\* Whether it was made by the alert's current responder.
ByResponder ==
    /\ alerts[response'.alert].responder # None
    /\ alerts[response'.alert].responder = response'.caller

\* C27: an update of a stored alert succeeds only for its reporter, its
\* current responder or an admin, a delete only for its reporter or an
\* admin; any other caller is answered 403 and nothing is changed.
C27_UpdateDeleteOwners ==
    [][/\ (response'.op = "update" /\ response'.alert \in DOMAIN alerts)
          => /\ response'.status = 200 => (ByReporterOrAdmin \/ ByResponder)
             /\ ~(ByReporterOrAdmin \/ ByResponder)
                   => (response'.status = 403 /\ AlertUntouched
                       /\ emitted' = <<>>)
       /\ (response'.op = "delete" /\ response'.alert \in DOMAIN alerts)
          => /\ response'.status = 200 => ByReporterOrAdmin
             /\ ~ByReporterOrAdmin
                   => (response'.status = 403 /\ AlertUntouched
                       /\ emitted' = <<>>)]_vars

\* An update by a family member, who is neither the reporter nor the
\* responder of the responded alert, has been refused.
C27_Witness ==
    /\ response = Response("update", "fam", 1, 403)
    /\ 1 \in DOMAIN alerts
    /\ alerts[1].reporter = "c1"
    /\ alerts[1].responder = "p1"

\* Whether the timeline holds the entry a cancel appends.
HasCancelEntry(alert) ==
    \E i \in 1..Len(alert.timeline) :
        alert.timeline[i].action = "Alert cancelled by reporter"

\* C28: for every interleaving of a reporter's cancel and a responder's
\* respond whose read and write are separate steps, no alert is cancelled
\* with a responder set, and none is responded with a cancellation entry
\* in its timeline.
C28_CancelRespondExclusive ==
    \A a \in DOMAIN alerts :
        /\ ~(alerts[a].status = "cancelled" /\ alerts[a].responder # None)
        /\ ~(alerts[a].status = "responded" /\ HasCancelEntry(alerts[a]))

\* The notifications stored before or after the step.
EitherNotifications ==
    BagToSet(notifications) \cup BagToSet(notifications')

\* The stored copies of notification n with the read flag set to `read`.
CopiesWithRead(n, read, bag) == CopiesIn([n EXCEPT !.read = read], bag)

\* The stored copies of notification n whatever their read flag.
CopiesEitherRead(n, bag) ==
    CopiesWithRead(n, TRUE, bag) + CopiesWithRead(n, FALSE, bag)

\* C30: mark-one-read and delete-one on another user's notification are
\* answered 404 and leave the notifications unchanged; no notification
\* route changes a notification of a user other than the caller; and a
\* read flag never goes back from true to false (unread copies of a
\* notification grow only by newly stored ones).
C30_NotificationsConfined ==
    [][/\ response'.op = "read"
          => \A n \in BagToSet(notifications) :
                (n.user # response'.caller /\ markAsRead(response'.caller, n))
                   => (response'.status = 404
                       /\ notifications' = notifications)
       /\ response'.op = "delete-notification"
          => \A n \in BagToSet(notifications) :
                (n.user # response'.caller
                 /\ deleteNotification(response'.caller, n))
                   => (response'.status = 404
                       /\ notifications' = notifications)
       /\ response'.op \in {"read", "read-all", "delete-notification",
                            "clear-read"}
          => \A n \in EitherNotifications :
                n.user # response'.caller
                   => CopiesIn(n, notifications') = CopiesIn(n, notifications)
       /\ \A n \in EitherNotifications :
             CopiesWithRead(n, FALSE, notifications')
                > CopiesWithRead(n, FALSE, notifications)
             => CopiesEitherRead(n, notifications')
                   - CopiesEitherRead(n, notifications)
                >= CopiesWithRead(n, FALSE, notifications')
                   - CopiesWithRead(n, FALSE, notifications)]_vars

\* The responder's request to mark the reporter's notification as read has
\* been answered 404 and the notification is still stored unread.
C30_Witness ==
    /\ response = Response("read", "p1", 0, 404)
    /\ \E n \in BagToSet(notifications) : n.user = "c1" /\ ~n.read
    /\ \E n \in BagToSet(notifications) : n.user = "p1" /\ n.read

====
